---- MODULE Spec2Model ----
(***************************************************************************)
(* Model of pysar/tropcor_pyaps.py: the weather-artifact lifecycle         *)
(* (resolve, verify, fetch with retry, re-verify) and the delay pipeline   *)
(* (estimate, normalize, persist or skip, correct).                        *)
(*                                                                         *)
(* File names are TLA+ strings handled character by character, as the      *)
(* Python code handles them (startswith, basename, regular expressions).   *)
(* File sizes are byte counts.  The backing store maps a path to its size, *)
(* or to Absent when no file is there.                                     *)
(***************************************************************************)
EXTENDS Integers, Sequences, FiniteSets, TLC

VARIABLES
    stage,          \* position of the run (the stage being executed next)
    trace,          \* history: the stages entered so far, in order
    inps,           \* the argparse namespace (the fields the pipeline reads)
    grib_file_list, \* inps.grib_file_list
    store,          \* backing store: path -> size in bytes, or Absent
    vlog,           \* history: one record per check_exist_grib_file call
    ident,          \* trop_model as identified by grib_file_name2trop_model_name
    fetch,          \* the fetch loop: counter i, calls made, requests, failures
    delay,          \* get_delay_timeseries locals: estimator calls, trop_data, ...
    trop,           \* the stored delay result (trop_file on disk), or NoFile
    ret             \* return values and the error raised, if any

vars == <<stage, trace, inps, grib_file_list, store, vlog, ident, fetch, delay, trop, ret>>

----------------------------------------------------------------------------
(* Bounds of the model *)

\* number of distinct acquisition dates in the universe of a pipeline run
MaxDates == 2

\* number of distinct artifact paths in the universe of the verifier runs
MaxFiles == 3

(* Program constants *)

\* os.path.getsize(i) > 10e6
MinSize == 10000000

\* while i < 3
MaxTry == 3

\* the store's value for a path with no file
Absent == 0 - 1
None == "None"

----------------------------------------------------------------------------
(* Strings *)

Char(s, i) == SubSeq(s, i, i)

Digits == {"0", "1", "2", "3", "4", "5", "6", "7", "8", "9"}

IsDigit(c) == c \in Digits

\* str.startswith
StartsWith(s, p) == Len(s) >= Len(p) /\ SubSeq(s, 1, Len(p)) = p

\* positions of '/' in s
Slashes(s) == {i \in 1..Len(s) : Char(s, i) = "/"}

LastSlash(s) == IF Slashes(s) = {} THEN 0
                ELSE CHOOSE i \in Slashes(s) : \A j \in Slashes(s) : j <= i

\* os.path.basename
Basename(s) == SubSeq(s, LastSlash(s) + 1, Len(s))

\* os.path.dirname (no trailing-slash or root cases arise for grib paths)
Dirname(s) == IF LastSlash(s) <= 1 THEN SubSeq(s, 1, LastSlash(s))
              ELSE SubSeq(s, 1, LastSlash(s) - 1)

AllDigits(s, from, to) == \A j \in from..to : IsDigit(Char(s, j))

\* start positions of the matches of \d{8}
Match8(s) == {i \in 1..(Len(s) - 7) : AllDigits(s, i, i + 7)}

\* re.findall('\d{8}', s)[0]; IndexError when nothing matches
FindDate8(s) ==
    IF Match8(s) = {} THEN "IndexError"
    ELSE LET i == CHOOSE i \in Match8(s) : \A j \in Match8(s) : i <= j
         IN  SubSeq(s, i, i + 7)

\* start positions of the matches of \d{8}[-_]\d{2}
MatchHour(s) == {i \in 1..(Len(s) - 10) :
                    /\ AllDigits(s, i, i + 7)
                    /\ Char(s, i + 8) \in {"-", "_"}
                    /\ AllDigits(s, i + 9, i + 10)}

\* re.findall('\d{8}[-_]\d{2}', s)[0].replace('-', '_').split('_')[1]
FindHour(s) ==
    IF MatchHour(s) = {} THEN "IndexError"
    ELSE LET i == CHOOSE i \in MatchHour(s) : \A j \in MatchHour(s) : i <= j
         IN  SubSeq(s, i + 9, i + 10)

\* the characters of grib paths in ASCII order
Ascii == <<"-", ".", "/", "0", "1", "2", "3", "4", "5", "6", "7", "8", "9",
           "A", "C", "E", "F", "I", "M", "N", "R", "W", "_",
           "a", "b", "c", "d", "e", "f", "g", "h", "i", "m", "n", "r", "t", "w">>

Ord(c) == CHOOSE k \in 1..Len(Ascii) : Ascii[k] = c

\* Python's a < b on strings: decided at the first position where they
\* differ, the shorter string first when there is none
StrLess(a, b) ==
    LET n == IF Len(a) < Len(b) THEN Len(a) ELSE Len(b)
        diff == {i \in 1..n : Char(a, i) # Char(b, i)}
    IN  IF diff = {} THEN Len(a) < Len(b)
        ELSE LET i == CHOOSE i \in diff : \A j \in diff : i <= j
             IN  Ord(Char(a, i)) < Ord(Char(b, i))

RECURSIVE SortedSeq(_)
\* sorted(list(S)) for a set of strings
SortedSeq(S) ==
    IF S = {} THEN <<>>
    ELSE LET m == CHOOSE x \in S : \A y \in S : x = y \/ StrLess(x, y)
         IN  <<m>> \o SortedSeq(S \ {m})

Range(q) == {q[k] : k \in 1..Len(q)}

----------------------------------------------------------------------------
(* Artifact Resolver *)

Models == {"ECMWF", "MERRA", "NARR", "ERA", "MERRA1"}

\* one iteration of the loop of date_list2grib_file
GribFile(d, hour, trop_model, grib_dir) ==
    (grib_dir \o "/") \o
    (CASE trop_model = "ECMWF"  -> (("ERA-Int_" \o d) \o "_") \o (hour \o ".grb")
       [] trop_model = "MERRA"  -> (("merra-" \o d) \o "-") \o (hour \o ".nc4")
       [] trop_model = "NARR"   -> (("narr-a_221_" \o d) \o "_") \o (hour \o "00_000.grb")
       [] trop_model = "ERA"    -> (("ERA_" \o d) \o "_") \o (hour \o ".grb")
       [] trop_model = "MERRA1" -> (("merra-" \o d) \o "-") \o (hour \o ".hdf")
       [] OTHER -> "")

date_list2grib_file(date_list, hour, trop_model, grib_dir) ==
    [k \in 1..Len(date_list) |-> GribFile(date_list[k], hour, trop_model, grib_dir)]

\* the name trop_model is unbound when no prefix matches
grib_file_name2trop_model_name(grib_file) ==
    LET base == Basename(grib_file)
    IN  IF StartsWith(base, "ERA-Int") THEN "ECMWF"
        ELSE IF StartsWith(base, "merra") THEN "MERRA"
        ELSE IF StartsWith(base, "narr") THEN "NARR"
        ELSE IF StartsWith(base, "ERA_") THEN "ERA"
        ELSE "UnboundLocalError"

----------------------------------------------------------------------------
(* Artifact Store Verifier *)

Exists(st, p) == p \in DOMAIN st /\ st[p] # Absent

\* ut.get_file_list: the existing files among the listed ones, in list order,
\* each once
get_file_list(file_list, st) ==
    LET first(k) == \A j \in 1..(k - 1) : file_list[j] # file_list[k]
        keep == {k \in 1..Len(file_list) : Exists(st, file_list[k]) /\ first(k)}
        RECURSIVE Pick(_)
        Pick(k) == IF k > Len(file_list) THEN <<>>
                   ELSE (IF k \in keep THEN <<file_list[k]>> ELSE <<>>) \o Pick(k + 1)
    IN  Pick(1)

Count(L, x) == Cardinality({k \in 1..Len(L) : L[k] = x})

\* ut.most_common: the most frequent item, the first met among equals
most_common(L) ==
    LET best == {k \in 1..Len(L) : \A j \in 1..Len(L) : Count(L, L[j]) <= Count(L, L[k])}
    IN  L[CHOOSE k \in best : \A j \in best : k <= j]

ListRemoveNothing(L, x) == L

\* list.remove(x): drops the first occurrence of x
ListRemove(L, x) ==
    LET at == CHOOSE k \in 1..Len(L) : L[k] = x /\ \A j \in 1..(k - 1) : L[j] # x
    IN  SubSeq(L, 1, at - 1) \o SubSeq(L, at + 1, Len(L))

\* file_sizes = [getsize(i) for i in gfile_exist if getsize(i) > 10e6]
FileSizes(gfile_exist, st) ==
    LET RECURSIVE Pick(_)
        Pick(k) == IF k > Len(gfile_exist) THEN <<>>
                   ELSE (IF st[gfile_exist[k]] > MinSize
                         THEN <<st[gfile_exist[k]]>> ELSE <<>>) \o Pick(k + 1)
    IN  Pick(1)

\* os.path.getsize(gfile) < comm_size * 0.9, on byte counts: with size and
\* comm_size integers below 2^31 the float product is within 1e-8 of
\* 9*comm_size/10 and equals it when that is an integer, so the comparison
\* is the exact one
BelowNinetyOrAt(size, comm_size) == 10 * size <= 9 * comm_size

BelowNinety(size, comm_size) == 10 * size < 9 * comm_size

CorruptNone(gfile_exist, st, comm_size) == <<>>

\* the loop that collects gfile_corrupt when a common size exists
CorruptBySize(gfile_exist, st, comm_size) ==
    LET RECURSIVE Pick(_)
        Pick(k) == IF k > Len(gfile_exist) THEN <<>>
                   ELSE (IF BelowNinety(st[gfile_exist[k]], comm_size)
                         THEN <<gfile_exist[k]>> ELSE <<>>) \o Pick(k + 1)
    IN  Pick(1)

\* gfile_corrupt = gfile_exist binds a second name to the same list object
AliasOfExist(has_common) == ~has_common

RECURSIVE RemoveLoop(_, _, _, _, _, _)
\* for i in gfile_corrupt: os.system('rm '+i); gfile_exist.remove(i)
\* k is the position of Python's list iterator; when gfile_corrupt is the
\* list gfile_exist itself (aliased), every removal shortens the list that
\* is being iterated
RemoveLoop(corrupt, exist, k, aliased, st, deleted) ==
    IF k > Len(corrupt) THEN [valid |-> exist, store |-> st, deleted |-> deleted]
    ELSE LET i == corrupt[k]
             exist2 == ListRemove(exist, i)
         IN  RemoveLoop(IF aliased THEN exist2 ELSE corrupt, exist2, k + 1, aliased,
                        [st EXCEPT ![i] = Absent], Append(deleted, i))

\* check_exist_grib_file: the list returned, the store it leaves, the files
\* it removed (the lines 'rm <file>' it printed), and the common size found
check_exist_grib_file(gfile_list, st) ==
    LET gfile_exist == get_file_list(gfile_list, st)
        file_sizes == FileSizes(gfile_exist, st)
        has_common == file_sizes # <<>>
        comm_size == IF has_common THEN most_common(file_sizes) ELSE Absent
        gfile_corrupt == IF has_common THEN CorruptBySize(gfile_exist, st, comm_size)
                         ELSE gfile_exist
        done == RemoveLoop(gfile_corrupt, gfile_exist, 1, AliasOfExist(has_common),
                           st, <<>>)
    IN  IF gfile_exist = <<>>
        THEN [input |-> gfile_list, before |-> st, existed |-> <<>>, comm_size |-> Absent,
              valid |-> <<>>, store |-> st, deleted |-> <<>>]
        ELSE [input |-> gfile_list, before |-> st, existed |-> gfile_exist,
              comm_size |-> comm_size,
              valid |-> done.valid, store |-> done.store, deleted |-> done.deleted]

----------------------------------------------------------------------------
(* Values of the variables a specification does not use *)

NoFile == [exists |-> FALSE, dates |-> <<>>, data |-> <<>>]

NoFetch == [i |-> 0, calls |-> 0, collab |-> None, dates |-> <<>>, files |-> <<>>,
            hour |-> None, dir |-> None, failed |-> FALSE]

NoDelay == [entered |-> FALSE, fresh |-> FALSE, est_calls |-> 0, est_failed |-> FALSE,
            trop_data |-> <<>>, date_list |-> <<>>, ref_date |-> None, written |-> FALSE]

NoRet == [dload_done |-> FALSE, trop_file |-> "unset", out |-> "unset",
          diff_calls |-> 0, status |-> Absent, err |-> "none", err_stage |-> "none"]

NoInps == [trop_model |-> None, hour |-> None, date_list |-> <<>>, grib_dir |-> None,
           timeseries_file |-> FALSE, geom_file |-> FALSE, ref_yx |-> FALSE,
           outfile |-> FALSE]

\* the k-th acquisition date of the universe, YYYYMMDD
DateStr(k) == "2015100" \o Char("123456789", k)

\* the sequences over S without repetition
RECURSIVE Lists(_)
Lists(S) == {<<>>} \cup UNION {{<<x>> \o q : q \in Lists(S \ {x})} : x \in S}

----------------------------------------------------------------------------
(* The resolver and its inverse on their own: date_list2grib_file followed *)
(* by grib_file_name2trop_model_name on the first path produced            *)

Hours == {"00", "06", "12", "18"}

Dirs == {"w", "d/w"}

ResolveDates == {DateStr(k) : k \in 1..MaxDates}

InitResolve ==
    /\ stage = "RESOLVE"
    /\ trace = <<>>
    /\ \E m \in Models, h \in Hours, dir \in Dirs, dl \in Lists(ResolveDates) \ {<<>>} :
          inps = [NoInps EXCEPT !.trop_model = m, !.hour = h, !.grib_dir = dir,
                                !.date_list = dl]
    /\ grib_file_list = <<>>
    /\ store = <<>>
    /\ vlog = <<>>
    /\ ident = None
    /\ fetch = NoFetch
    /\ delay = NoDelay
    /\ trop = NoFile
    /\ ret = NoRet

Resolve ==
    /\ stage = "RESOLVE"
    /\ grib_file_list' = date_list2grib_file(inps.date_list, inps.hour, inps.trop_model,
                                               inps.grib_dir)
    /\ stage' = "IDENTIFY"
    /\ UNCHANGED <<trace, inps, store, vlog, ident, fetch, delay, trop, ret>>

Identify ==
    /\ stage = "IDENTIFY"
    /\ ident' = grib_file_name2trop_model_name(grib_file_list[1])
    /\ stage' = "IDENTIFIED"
    /\ UNCHANGED <<trace, inps, grib_file_list, store, vlog, fetch, delay, trop, ret>>

NextResolve == Resolve \/ Identify

SpecResolve == InitResolve /\ [][NextResolve]_vars

----------------------------------------------------------------------------
(* The verifier on its own: check_exist_grib_file called twice in a row on *)
(* the same path list, the store changing only by the verifier's deletions *)
(* (the directory may hold artifacts that are not in the list)             *)

VerifyPaths == {GribFile(DateStr(k), "12", "ECMWF", "w") : k \in 1..MaxFiles}

\* truncated downloads (at or below 10e6 bytes), a full-size artifact of
\* 20e6 bytes, and sizes just below 90%, at 90% and at 91% of it
VerifySizes == {5000000, 10000000, 17999999, 18000000, 18200000, 20000000}

InitVerify ==
    /\ stage = "VERIFY"
    /\ trace = <<>>
    /\ inps = NoInps
    /\ grib_file_list \in Lists(VerifyPaths)
    /\ store \in [VerifyPaths -> VerifySizes \cup {Absent}]
    /\ vlog = <<>>
    /\ ident = None
    /\ fetch = NoFetch
    /\ delay = NoDelay
    /\ trop = NoFile
    /\ ret = NoRet

VerifyCall ==
    /\ stage = "VERIFY"
    /\ LET r == check_exist_grib_file(grib_file_list, store)
       IN  /\ vlog' = Append(vlog, r)
           /\ store' = r.store
    /\ stage' = IF Len(vlog) = 0 THEN "VERIFY" ELSE "VERIFIED"
    /\ UNCHANGED <<trace, inps, grib_file_list, ident, fetch, delay, trop, ret>>

NextVerify == VerifyCall

SpecVerify == InitVerify /\ [][NextVerify]_vars

----------------------------------------------------------------------------
(* The pipeline run: main *)

\* the run's acquisition dates
Dates == {DateStr(k) : k \in 1..MaxDates}

\* the models of the runs: those of the usage examples of the module
PipelineModels == {"ECMWF", "MERRA"}

\* --hour as given on the command line
PipelineHour == "12"

\* --weather-dir
WeatherDir == "w"

\* artifact sizes met in a run: a truncated download and a full-size artifact
PipelineSizes == {5000000, 20000000}

\* os.path.join(inps.weather_dir, inps.trop_model)
GribDir(trop_model) == (WeatherDir \o "/") \o trop_model

RunPaths(trop_model) ==
    {GribFile(d, PipelineHour, trop_model, GribDir(trop_model)) : d \in Dates}

\* os.path.join(os.path.dirname(inps.geom_file), inps.trop_model+'.h5')
TropFile(i) == i.trop_model \o ".h5"

\* a delay field: the value at the reference pixel inps.ref_yx, then the value
\* at one other pixel
ZeroField == <<0, 0>>

\* what a stored result of an earlier run holds
OldFile == [exists |-> TRUE, dates |-> <<DateStr(1)>>, data |-> <<ZeroField>>]

Enter(s) == /\ stage' = s
            /\ trace' = Append(trace, s)

Fatal(kind) == /\ stage' = "FATAL"
               /\ trace' = Append(trace, "FATAL")
               /\ ret' = [ret EXCEPT !.err = kind, !.err_stage = stage]

\* Before main: the command line and the files it names.  inps.date_list is
\* the date source in effect: the -d dates, or the dates of the time-series
\* file when -f is given.  inps.ref_yx says whether a reference pixel is
\* known (--ref-yx, or REF_Y/REF_X in the metadata).  Flags the code does
\* not read on a path are FALSE: outfile with -f, ref_yx without -g.
Init ==
    /\ stage = "INIT"
    /\ trace = <<"INIT">>
    /\ \E m \in PipelineModels, dl \in Lists(Dates), ts \in BOOLEAN, g \in BOOLEAN,
          r \in BOOLEAN, o \in BOOLEAN :
          /\ r => g
          /\ o => ~ts
          /\ inps = [trop_model |-> m, hour |-> PipelineHour, date_list |-> dl,
                     grib_dir |-> None, timeseries_file |-> ts, geom_file |-> g,
                     ref_yx |-> r, outfile |-> o]
          /\ store \in [RunPaths(m) -> PipelineSizes \cup {Absent}]
          /\ \A d \in Dates \ Range(dl) :
                store[GribFile(d, PipelineHour, m, GribDir(m))] = Absent
          /\ trop \in IF g THEN {NoFile, OldFile} ELSE {NoFile}
    /\ grib_file_list = <<>>
    /\ vlog = <<>>
    /\ ident = None
    /\ fetch = NoFetch
    /\ delay = NoDelay
    /\ ret = NoRet

\* cmd_line_parse: without date list, time-series file and geometry file the
\* usage is printed and the process exits with status 1
CmdLineParse ==
    /\ stage = "INIT"
    /\ IF inps.date_list = <<>> /\ ~inps.timeseries_file /\ ~inps.geom_file
       THEN Enter("EXIT")
       ELSE Enter("RESOLVING")
    /\ UNCHANGED <<inps, grib_file_list, store, vlog, ident, fetch, delay, trop, ret>>

\* check_inputs, failing: os.path.splitext(None) when neither -o nor -f is
\* given; 'input date list < 2' for a single -d item that is no file
CheckInputsFails ==
    /\ stage = "RESOLVING"
    /\ \/ /\ ~inps.outfile /\ ~inps.timeseries_file
          /\ Fatal("TypeError")
       \/ /\ inps.outfile \/ inps.timeseries_file
          /\ ~inps.timeseries_file /\ Len(inps.date_list) = 1
          /\ Fatal("Exception")
    /\ UNCHANGED <<inps, grib_file_list, store, vlog, ident, fetch, delay, trop>>

\* check_inputs: the grib directory and the list of grib files
CheckInputs ==
    /\ stage = "RESOLVING"
    /\ inps.outfile \/ inps.timeseries_file
    /\ inps.timeseries_file \/ Len(inps.date_list) # 1
    /\ inps' = [inps EXCEPT !.grib_dir = GribDir(inps.trop_model)]
    /\ grib_file_list' = date_list2grib_file(inps.date_list, inps.hour, inps.trop_model,
                                             GribDir(inps.trop_model))
    /\ Enter("VERIFYING")
    /\ UNCHANGED <<store, vlog, ident, fetch, delay, trop, ret>>

----------------------------------------------------------------------------
(* dload_grib_pyaps *)

\* the pyaps download function of a model
Collaborator(trop_model) ==
    CASE trop_model = "ECMWF"  -> "ECMWFdload"
      [] trop_model = "MERRA"  -> "MERRAdload"
      [] trop_model = "NARR"   -> "NARRdload"
      [] trop_model = "ERA"    -> "ERAdload"
      [] trop_model = "MERRA1" -> "MERRA1dload"
      [] OTHER -> None

\* grib_file2dload = sorted(list(set(grib_file_list) - set(grib_file_exist)))
File2Dload(file_list, file_exist) == SortedSeq(Range(file_list) \ Range(file_exist))

\* date_list2dload
DateList2Dload(file2dload) == [k \in 1..Len(file2dload) |-> FindDate8(file2dload[k])]

\* the first check, the files and dates to download, and what the download
\* loop needs: hour, grib_dir and trop_model from the first file to download
VerifyBeforeFetch ==
    /\ stage = "VERIFYING"
    /\ Len(vlog) = 0
    /\ LET r == check_exist_grib_file(grib_file_list, store)
           file2dload == File2Dload(grib_file_list, r.valid)
       IN  /\ vlog' = <<r>>
           /\ store' = r.store
           /\ IF Len(file2dload) > 0
              THEN /\ fetch' = [NoFetch EXCEPT
                                   !.files = file2dload,
                                   !.dates = DateList2Dload(file2dload),
                                   !.hour = FindHour(file2dload[1]),
                                   !.dir = Dirname(file2dload[1])]
                   /\ ident' = grib_file_name2trop_model_name(file2dload[1])
                   /\ Enter("FETCHING")
              ELSE /\ UNCHANGED <<fetch, ident>>
                   /\ Enter("VERIFYING")
    /\ UNCHANGED <<inps, grib_file_list, delay, trop, ret>>

WhileConditionOffByOne(i) == i <= MaxTry

\* while i < 3
WhileCondition(i) == i < MaxTry

ExceptReraises(raised) == raised

\* except: pass -- whether the exception of an attempt leaves the try statement
ExceptPass(raised) == FALSE

\* sizes of the files a download writes: those met before, and a full-size
\* artifact of twice the size (another area or resolution of the product)
FetchedSizes == PipelineSizes \cup {40000000}

\* what one call of the download function may leave on the store: each
\* requested file is written with some size or left as it was
FetchOutcomes(st, files, sizes) ==
    {w \in [DOMAIN st -> sizes \cup {Absent}] :
        \A p \in DOMAIN st : w[p] # st[p] => (p \in Range(files) /\ w[p] # Absent)}

\* one pass of the download loop: i += 1, the call of the model's download
\* function for date_list2dload, which may raise; sizes are the sizes of the
\* files a download may write
FetchWith(sizes) ==
    /\ stage = "FETCHING"
    /\ WhileCondition(fetch.i)
    /\ \E w \in FetchOutcomes(store, fetch.files, sizes), raised \in BOOLEAN :
          /\ store' = w
          /\ fetch' = [fetch EXCEPT !.i = @ + 1, !.calls = @ + 1,
                                    !.collab = Collaborator(ident),
                                    !.failed = @ \/ raised]
          /\ IF ExceptPass(raised)
             THEN Fatal("DownloadError")
             ELSE UNCHANGED <<stage, trace, ret>>
    /\ UNCHANGED <<inps, grib_file_list, vlog, ident, delay, trop>>

\* in a pipeline run the downloads write files of the sizes met before
FetchAttempt == FetchWith(PipelineSizes)

\* the downloads write files of any size, the sizes met before or not
FetchAttemptAnySize == FetchWith(FetchedSizes)

\* the loop ends
FetchLoopExit ==
    /\ stage = "FETCHING"
    /\ ~WhileCondition(fetch.i)
    /\ Enter("VERIFYING")
    /\ UNCHANGED <<inps, grib_file_list, store, vlog, ident, fetch, delay, trop, ret>>

\* the second check; its result is returned and becomes inps.grib_file_list
VerifyAfterFetch ==
    /\ stage = "VERIFYING"
    /\ Len(vlog) = 1
    /\ LET r == check_exist_grib_file(grib_file_list, store)
       IN  /\ vlog' = Append(vlog, r)
           /\ store' = r.store
           /\ grib_file_list' = r.valid
    /\ ret' = [ret EXCEPT !.dload_done = TRUE]
    /\ stage' = "DELAY"
    /\ UNCHANGED <<trace, inps, ident, fetch, delay, trop>>

----------------------------------------------------------------------------
(* get_delay_timeseries *)

\* any(i is None for i in [inps.geom_file, inps.ref_yx])
NothingToEstimateWith(i) == ~i.geom_file \/ ~i.ref_yx

\* ut.run_or_skip(out_file, in_file): 'skip' when out_file exists and no
\* in_file is newer than it, 'run' otherwise
run_or_skip(out_exists, some_in_newer) ==
    IF out_exists /\ ~some_in_newer THEN "skip" ELSE "run"

RunsWhenSkip(decision) == decision = "skip"

\* == 'run'
RunsWhen(decision) == decision = "run"

\* The modification times are read here for the first time.  A file written
\* by the download of this run is newer than a result stored before the run;
\* a file that was there before may be older or newer than it.
NewerChoices ==
    IF ~trop.exists THEN {{}}
    ELSE LET fetched == Range(grib_file_list) \cap Range(fetch.files)
         IN  {fetched \cup old : old \in SUBSET (Range(grib_file_list) \ fetched)}

\* the early return, or the decision to run or to skip
DelayEntry ==
    /\ stage = "DELAY"
    /\ \E newer \in NewerChoices :
          LET fresh == trop.exists /\ newer = {}
              decision == run_or_skip(trop.exists, newer # {})
          IN  /\ delay' = [delay EXCEPT !.entered = TRUE, !.fresh = fresh]
              /\ IF NothingToEstimateWith(inps)
                 THEN /\ ret' = [ret EXCEPT !.trop_file = None]
                      /\ stage' = "RETURNED"
                      /\ UNCHANGED trace
                 ELSE /\ UNCHANGED ret
                      /\ IF RunsWhen(decision)
                         THEN Enter("ESTIMATING")
                         ELSE Enter("SKIPPED")
    /\ UNCHANGED <<inps, grib_file_list, store, vlog, ident, fetch, trop>>

\* the date of a grib file as a number: its day of the month
DayOf(grib_file) ==
    LET d == FindDate8(grib_file)
    IN  CHOOSE k \in 0..9 : Char("0123456789", k + 1) = Char(d, 8)

\* The delay estimator (pyaps) is a function of the grib file and of the
\* geometry; here the raw delay at the reference pixel and at one other pixel
EstimatorOutput(grib_file) == <<DayOf(grib_file), 3 * DayOf(grib_file) + 1>>

RawNegated(raw) == [j \in 1..Len(raw) |-> (0 - 1) * raw[j]]

\* get_delay: phs -= phs[ref_y, ref_x]; phs *= -1
get_delay(raw) == [j \in 1..Len(raw) |-> (0 - 1) * (raw[j] - raw[1])]

\* date_list = [re.findall('\d{8}', i)[0] for i in inps.grib_file_list]
DateListOf(file_list) == [k \in 1..Len(file_list) |-> FindDate8(file_list[k])]

EpochSkipped(raised) == FALSE

\* trop_data[i] = get_delay(grib_file, inps) stands in no try statement: an
\* exception of the estimator leaves the loop and get_delay_timeseries
EstimatorErrorLeaves(raised) == raised

\* the loop over the grib files: one get_delay per date; failed_at is the
\* epoch at which the estimator raises (0: at none)
Estimate ==
    /\ stage = "ESTIMATING"
    /\ \E failed_at \in 0..Len(grib_file_list) :
          IF EstimatorErrorLeaves(failed_at # 0)
          THEN /\ delay' = [delay EXCEPT
                               !.date_list = DateListOf(grib_file_list),
                               !.est_calls = failed_at,
                               !.est_failed = TRUE,
                               !.trop_data = [j \in 1..(failed_at - 1) |->
                                                 get_delay(EstimatorOutput(grib_file_list[j]))]]
               /\ Fatal("EstimatorError")
          ELSE /\ delay' = [delay EXCEPT
                               !.date_list = DateListOf(grib_file_list),
                               !.est_calls = Len(grib_file_list),
                               !.est_failed = (failed_at # 0),
                               !.trop_data = [k \in 1..Len(grib_file_list) |->
                                                 get_delay(EstimatorOutput(grib_file_list[k]))]]
               /\ Enter("NORMALIZING")
               /\ UNCHANGED ret
    /\ UNCHANGED <<inps, grib_file_list, store, vlog, ident, fetch, trop>>

\* list.index: 0 when x is not in the list (ValueError)
IndexOf(L, x) ==
    IF x \in Range(L) THEN CHOOSE k \in 1..Len(L) : L[k] = x /\ \A j \in 1..(k - 1) : L[j] # x
    ELSE 0

\* trop_data -= np.tile(trop_data[inps.ref_idx, :, :], (num_date, 1, 1))
SubtractReference(trop_data, ref_idx) ==
    [k \in 1..Len(trop_data) |->
        [j \in 1..Len(trop_data[k]) |-> trop_data[k][j] - trop_data[ref_idx][j]]]

\* REF_DATE of the metadata, when there is one, is a date of the date source
RefDateChoices == {None} \cup Range(inps.date_list)

\* the reference date and the conversion to delays relative to it;
\* atr['REF_DATE'] is read here for the first time
Normalize ==
    /\ stage = "NORMALIZING"
    /\ \E ref_meta \in RefDateChoices :
          IF ref_meta = None /\ delay.date_list = <<>>
          THEN /\ Fatal("IndexError")
               /\ UNCHANGED delay
          ELSE LET ref_date == IF ref_meta # None THEN ref_meta ELSE delay.date_list[1]
                   ref_idx == IndexOf(delay.date_list, ref_date)
               IN  IF ref_idx = 0
                   THEN /\ Fatal("ValueError")
                        /\ delay' = [delay EXCEPT !.ref_date = ref_date]
                   ELSE /\ delay' = [delay EXCEPT
                                        !.ref_date = ref_date,
                                        !.trop_data = SubtractReference(@, ref_idx)]
                        /\ stage' = "PERSISTING"
                        /\ UNCHANGED <<trace, ret>>
    /\ UNCHANGED <<inps, grib_file_list, store, vlog, ident, fetch, trop>>

\* ts_obj.write2hdf5(data=trop_data, dates=date_list, ...), which may fail
Persist ==
    /\ stage = "PERSISTING"
    /\ \/ /\ trop' = [exists |-> TRUE, dates |-> delay.date_list, data |-> delay.trop_data]
          /\ delay' = [delay EXCEPT !.written = TRUE]
          /\ Enter("PERSISTED")
          /\ UNCHANGED ret
       \/ /\ Fatal("WriteError")
          /\ UNCHANGED <<trop, delay>>
    /\ UNCHANGED <<inps, grib_file_list, store, vlog, ident, fetch>>

\* the temporary geometry files are removed and trop_file is returned
ReturnTropFile ==
    /\ stage \in {"SKIPPED", "PERSISTED"}
    /\ ret' = [ret EXCEPT !.trop_file = TropFile(inps)]
    /\ stage' = "RETURNED"
    /\ UNCHANGED <<trace, inps, grib_file_list, store, vlog, ident, fetch, delay, trop>>

----------------------------------------------------------------------------
(* main after get_delay_timeseries, and correct_timeseries *)

FileTypeAlwaysSeries(i) == IF i.timeseries_file \/ i.geom_file THEN "timeseries"
                           ELSE "KeyError"

\* atr is the metadata of the time-series file, else of the geometry file,
\* else an empty dict
FileType(i) == IF i.timeseries_file THEN "timeseries"
               ELSE IF i.geom_file THEN "geometry"
               ELSE "KeyError"

\* inps.outfile: the -o name, or the name made from the time-series file
OutFile(i) == IF i.outfile THEN "out.h5" ELSE "timeseries_" \o (i.trop_model \o ".h5")

\* if atr['FILE_TYPE'] == 'timeseries'
MainFileType ==
    /\ stage = "RETURNED"
    /\ \/ /\ FileType(inps) = "KeyError"
          /\ Fatal("KeyError")
       \/ /\ FileType(inps) = "timeseries"
          /\ Enter("CORRECTING")
          /\ UNCHANGED ret
       \/ /\ FileType(inps) = "geometry"
          /\ ret' = [ret EXCEPT !.out = OutFile(inps)]
          /\ Enter("DONE")
    /\ UNCHANGED <<inps, grib_file_list, store, vlog, ident, fetch, delay, trop>>

\* the exit status of diff.py: it cannot read a delay file named 'None'
DiffStatus == IF ret.trop_file = None THEN {1} ELSE {0, 1}

StatusIgnored(status) == FALSE

\* if status is not 0 (the int 0 is one object in CPython, so the identity
\* test is the comparison with 0)
StatusIsNotZero(status) == status # 0

\* correct_timeseries: diff.py is run, and a status other than 0 raises;
\* ret.status keeps the status diff.py returned
Correct ==
    /\ stage = "CORRECTING"
    /\ \E status \in DiffStatus :
          IF StatusIsNotZero(status)
          THEN /\ stage' = "FATAL"
               /\ trace' = Append(trace, "FATAL")
               /\ ret' = [ret EXCEPT !.err = "Exception", !.err_stage = stage,
                                     !.diff_calls = @ + 1, !.status = status]
          ELSE /\ ret' = [ret EXCEPT !.out = OutFile(inps), !.diff_calls = @ + 1,
                                     !.status = status]
               /\ Enter("DONE")
    /\ UNCHANGED <<inps, grib_file_list, store, vlog, ident, fetch, delay, trop>>

\* dload_grib_pyaps on its own, for every model: from its call to its return
InitDload ==
    /\ stage = "VERIFYING"
    /\ trace = <<"VERIFYING">>
    /\ \E m \in Models, dl \in Lists(Dates) :
          /\ inps = [NoInps EXCEPT !.trop_model = m, !.hour = PipelineHour,
                                   !.date_list = dl, !.grib_dir = GribDir(m)]
          /\ grib_file_list = date_list2grib_file(dl, PipelineHour, m, GribDir(m))
          /\ store \in [RunPaths(m) -> PipelineSizes \cup {Absent}]
          /\ \A d \in Dates \ Range(dl) :
                store[GribFile(d, PipelineHour, m, GribDir(m))] = Absent
    /\ trop = NoFile
    /\ vlog = <<>>
    /\ ident = None
    /\ fetch = NoFetch
    /\ delay = NoDelay
    /\ ret = NoRet

NextDload ==
    \/ VerifyBeforeFetch
    \/ FetchAttempt
    \/ FetchLoopExit
    \/ VerifyAfterFetch

SpecDload == InitDload /\ [][NextDload]_vars

\* the run is one sequential process: the download loop takes its next step
\* whenever it has one (a call of the download function returns or raises)
FairDload ==
    /\ SpecDload
    /\ WF_vars(FetchAttempt)
    /\ WF_vars(FetchLoopExit)

\* dload_grib_pyaps on its own, the downloads writing files of any size
NextRefetch ==
    \/ VerifyBeforeFetch
    \/ FetchAttemptAnySize
    \/ FetchLoopExit
    \/ VerifyAfterFetch

SpecRefetch == InitDload /\ [][NextRefetch]_vars

Next ==
    \/ CmdLineParse
    \/ CheckInputsFails
    \/ CheckInputs
    \/ VerifyBeforeFetch
    \/ FetchAttempt
    \/ FetchLoopExit
    \/ VerifyAfterFetch
    \/ DelayEntry
    \/ Estimate
    \/ Normalize
    \/ Persist
    \/ ReturnTropFile
    \/ MainFileType
    \/ Correct

Spec == Init /\ [][Next]_vars

----------------------------------------------------------------------------
(* Properties of the resolver and of the verifier *)

\* C1: for every supported model m, identifying the model from the first
\* path the resolver produced for m gives m again.
RoundTrip_C1 ==
    stage = "IDENTIFIED" => ident = inps.trop_model

Calls == {vlog[k] : k \in 1..Len(vlog)}

AllAtOrBelowMin(r) ==
    /\ r.existed # <<>>
    /\ \A p \in Range(r.existed) : r.before[p] <= MinSize

\* C2: when every existing artifact of the list is at or below the
\* minimum-size threshold, the call returns an empty valid list and has
\* deleted every one of them.
NoConsensusFailSafe_C2 ==
    \A r \in Calls :
        AllAtOrBelowMin(r) =>
            /\ r.valid = <<>>
            /\ \A p \in Range(r.existed) : r.store[p] = Absent

HasCommon(r) == r.existed # <<>> /\ r.comm_size # Absent

Kept(r, p) == p \in Range(r.valid) /\ r.store[p] = r.before[p]

Dropped(r, p) == p \notin Range(r.valid) /\ r.store[p] = Absent

\* C3 as stated: with a consensus size C, an artifact of exactly 90% of C is
\* corrupt (deleted, not in the valid list) and one of 91% of C is valid.
ThresholdAsStated_C3 ==
    \A r \in Calls : HasCommon(r) =>
        \A p \in Range(r.existed) :
            /\ 10 * r.before[p] = 9 * r.comm_size => Dropped(r, p)
            /\ 100 * r.before[p] = 91 * r.comm_size => Kept(r, p)

\* C3 amended: with a consensus size C, an artifact strictly below 90% of C
\* is corrupt (deleted, not in the valid list); one of exactly 90% of C, and
\* one of 91% of C, is valid and stays on the store.
Threshold_C3 ==
    \A r \in Calls : HasCommon(r) =>
        \A p \in Range(r.existed) :
            /\ 10 * r.before[p] < 9 * r.comm_size => Dropped(r, p)
            /\ 10 * r.before[p] = 9 * r.comm_size => Kept(r, p)
            /\ 100 * r.before[p] = 91 * r.comm_size => Kept(r, p)

\* a call with a consensus size that met an artifact at exactly 90% of it
\* and one at 91%, and kept both
ThresholdWitness_C3 ==
    \E r \in Calls :
        /\ HasCommon(r)
        /\ \E p \in Range(r.valid) : 10 * r.before[p] = 9 * r.comm_size
        /\ \E p \in Range(r.valid) : 100 * r.before[p] = 91 * r.comm_size

\* C9: the second of two calls in a row on the same path list returns the
\* same valid list as the first (hence the same partition of the list) and
\* deletes nothing.
Idempotent_C9 ==
    Len(vlog) = 2 =>
        /\ vlog[2].valid = vlog[1].valid
        /\ vlog[2].deleted = <<>>

\* flagged corrupt by a call that found a consensus size: a listed file that
\* exists with a size below 90% of it
Flagged(r, p) ==
    /\ p \in Range(r.input) /\ Exists(r.before, p)
    /\ 10 * r.before[p] < 9 * r.comm_size

\* the listed files that exist with at least 90% of the consensus size, in
\* list order
AtLeastNinety(r) ==
    LET Good(p) == Exists(r.before, p) /\ 10 * r.before[p] >= 9 * r.comm_size
    IN  SelectSeq(r.input, Good)

\* C16: a call that finds a consensus size returns exactly the listed files
\* that exist with at least 90% of it; every file flagged corrupt is gone from
\* the store and from the returned list; every other path of the store, in
\* the list or not, is as it was.
VerifierResult_C16 ==
    \A r \in Calls : HasCommon(r) =>
        /\ r.valid = AtLeastNinety(r)
        /\ \A p \in DOMAIN r.before :
              IF Flagged(r, p)
              THEN r.store[p] = Absent /\ p \notin Range(r.valid)
              ELSE r.store[p] = r.before[p]

\* a call with a consensus size that deleted a listed file, kept another, and
\* left alone a small file that is not in the list
VerifierResultWitness_C16 ==
    \E r \in Calls :
        /\ HasCommon(r)
        /\ r.deleted # <<>> /\ r.valid # <<>>
        /\ \E p \in DOMAIN r.before \ Range(r.input) :
              r.before[p] = 5000000 /\ r.store[p] = 5000000

----------------------------------------------------------------------------
(* Properties of dload_grib_pyaps *)

\* the listed files that the verification rule of the design calls valid on
\* store st: existing, a consensus size exists among the listed files above
\* the minimum size, and the file has at least 90% of it
ValidByRule(file_list, st) ==
    LET exist == get_file_list(file_list, st)
        sizes == FileSizes(exist, st)
        Valid(p) == /\ Exists(st, p)
                    /\ sizes # <<>>
                    /\ 10 * st[p] >= 9 * most_common(sizes)
    IN  SelectSeq(file_list, Valid)

\* C4: the list returned by dload_grib_pyaps is the input list restricted to
\* the artifacts that are valid after the fetch, in input order, and the
\* delay stack has one field per date of that list, in that order.
DateSurvivor_C4 ==
    /\ ret.dload_done =>
          grib_file_list = ValidByRule(vlog[2].input, vlog[2].before)
    /\ stage = "NORMALIZING" =>
          /\ Len(delay.trop_data) = Len(grib_file_list)
          /\ delay.date_list = [k \in 1..Len(grib_file_list) |-> FindDate8(grib_file_list[k])]

NothingMissing == Len(vlog) >= 1 /\ Range(vlog[1].input) \subseteq Range(vlog[1].valid)

\* C6: the download function is called at most 3 times in a run, not at all
\* when the first check finds nothing missing or invalid, and the download
\* loop is always left.
BoundedRetry_C6 ==
    /\ [](fetch.calls <= 3 /\ (NothingMissing => fetch.calls = 0))
    /\ (stage = "FETCHING") ~> (stage # "FETCHING")

\* three attempts were made, one of them failed, and the run went on
BoundedRetryWitness_C6 ==
    fetch.calls = 3 /\ fetch.failed /\ ret.dload_done

DatesToFetch ==
    {FindDate8(p) : p \in Range(vlog[1].input)
                        \ Range(ValidByRule(vlog[1].input, vlog[1].before))}

\* C18: for each of the five models, when a download is made it is made by
\* the download function of the model of the run, for exactly the dates of
\* the artifacts that are missing or invalid (and so for no date whose
\* artifact is present and valid).
ModelConsistentFetch_C18 ==
    fetch.calls > 0 =>
        /\ fetch.collab = Collaborator(inps.trop_model)
        /\ Range(fetch.dates) = DatesToFetch

\* the store as the first check left it is the store the second check met,
\* at path p
Untouched(p) == vlog[2].before[p] = vlog[1].store[p]

\* C19 as stated: an artifact the first check returned as valid, and that the
\* download did not modify, is not deleted by the second check and is in the
\* list dload_grib_pyaps returns, whatever the sizes of the fetched files.
ValidSurvivesAsStated_C19 ==
    Len(vlog) = 2 =>
        \A p \in Range(vlog[1].valid) :
            Untouched(p) =>
                /\ p \notin Range(vlog[2].deleted)
                /\ p \in Range(grib_file_list)

\* C19 amended: an artifact the first check found valid against a consensus
\* size, and that the download did not modify, is kept by the second check
\* (on the store, in the returned list) exactly when its size is at least 90%
\* of the consensus size the second check finds; fetched files that set a
\* larger consensus size get it deleted and dropped.
ValidSurvives_C19 ==
    Len(vlog) = 2 =>
        \A p \in Range(vlog[1].valid) :
            (HasCommon(vlog[1]) /\ Untouched(p)) =>
                /\ HasCommon(vlog[2])
                /\ IF 10 * vlog[2].before[p] >= 9 * vlog[2].comm_size
                   THEN /\ p \notin Range(vlog[2].deleted) /\ Exists(store, p)
                        /\ p \in Range(grib_file_list)
                   ELSE /\ p \in Range(vlog[2].deleted) /\ ~Exists(store, p)
                        /\ p \notin Range(grib_file_list)

\* a valid artifact survived next to a fetched artifact of another size
ValidSurvivesWitness_C19 ==
    /\ Len(vlog) = 2 /\ HasCommon(vlog[1])
    /\ \E p \in Range(vlog[1].valid), q \in Range(fetch.files) :
          /\ Untouched(p) /\ p \in Range(grib_file_list)
          /\ Exists(vlog[2].before, q)
          /\ vlog[2].before[q] # vlog[2].before[p]

----------------------------------------------------------------------------
(* Properties of get_delay_timeseries and of the run *)

\* C5: with a non-empty working date list the normalization completes, and
\* the field of the reference date in the stored stack is all zero.
ReferenceZero_C5 ==
    /\ ret.err_stage = "NORMALIZING" => delay.date_list = <<>>
    /\ delay.written => trop.data[IndexOf(trop.dates, delay.ref_date)] = ZeroField

\* C8 as stated: when the stored result exists and is newer than every
\* artifact of the working list, the estimator is not called, the stored
\* result is not rewritten, and the path of the stored result is returned.
SkipIfFreshAsStated_C8 ==
    delay.fresh =>
        /\ delay.est_calls = 0 /\ ~delay.written /\ trop = OldFile
        /\ ret.trop_file \in {"unset", TropFile(inps)}

\* C8 amended: when the stored result exists and is newer than every artifact
\* of the working list, the estimator is not called and the stored result is
\* not rewritten; the path of the stored result is returned when a reference
\* pixel is known, and None when it is not.
SkipIfFresh_C8 ==
    delay.fresh =>
        /\ delay.est_calls = 0 /\ ~delay.written /\ trop = OldFile
        /\ ret.trop_file \in {"unset", IF inps.ref_yx THEN TropFile(inps) ELSE None}

\* a run with artifacts in its working list returned the fresh stored result
SkipIfFreshWitness_C8 ==
    /\ delay.fresh /\ grib_file_list # <<>>
    /\ ret.trop_file = TropFile(inps)

Upto(fetched) == <<"INIT", "RESOLVING", "VERIFYING">> \o
                 (IF fetched THEN <<"FETCHING">> ELSE <<>>) \o <<"VERIFYING">>

\* C10 as stated: a run that reaches DONE went through INIT, RESOLVING,
\* VERIFYING, optionally FETCHING, VERIFYING, ESTIMATING, NORMALIZING, one of
\* SKIPPED and PERSISTED, CORRECTING, DONE.
StageOrderAsStated_C10 ==
    stage = "DONE" =>
        \E fetched \in BOOLEAN, last \in {"SKIPPED", "PERSISTED"} :
            trace = Upto(fetched) \o <<"ESTIMATING", "NORMALIZING", last, "CORRECTING", "DONE">>

\* C10 amended: a run that reaches DONE went through INIT, RESOLVING,
\* VERIFYING, optionally FETCHING, VERIFYING; then, when a geometry file and
\* a reference pixel are known (and only then), either ESTIMATING,
\* NORMALIZING, PERSISTED or SKIPPED alone; then CORRECTING when the input is
\* a time-series file (and only then); then DONE.  So estimation starts after
\* the second verification and CORRECTING after SKIPPED or PERSISTED.
StageOrder_C10 ==
    stage = "DONE" =>
        \E fetched \in BOOLEAN,
           mid \in {<<"ESTIMATING", "NORMALIZING", "PERSISTED">>, <<"SKIPPED">>, <<>>},
           cor \in {<<"CORRECTING">>, <<>>} :
            /\ trace = Upto(fetched) \o mid \o cor \o <<"DONE">>
            /\ mid # <<>> <=> (inps.geom_file /\ inps.ref_yx)
            /\ cor # <<>> <=> inps.timeseries_file
            /\ cor # <<>> => mid # <<>>

\* a run through every stage of the stated order
StageOrderWitness_C10 ==
    /\ stage = "DONE"
    /\ trace = Upto(TRUE) \o <<"ESTIMATING", "NORMALIZING", "PERSISTED", "CORRECTING", "DONE">>

\* C17: every field get_delay returned is the negation of (raw estimator
\* output minus its value at the reference pixel), so the reference pixel is
\* zero in every field of the stack, before the normalization to the
\* reference date, after it, and in the stored result.
SignAndReference_C17 ==
    /\ stage = "NORMALIZING" =>
          \A k \in 1..Len(delay.trop_data) :
              LET raw == EstimatorOutput(grib_file_list[k])
              IN  \A j \in 1..Len(raw) : delay.trop_data[k][j] + (raw[j] - raw[1]) = 0
    /\ \A k \in 1..Len(delay.trop_data) : delay.trop_data[k][1] = 0
    /\ delay.written => \A k \in 1..Len(trop.data) : trop.data[k][1] = 0

\* a stack of two epochs was normalized and stored, with a non-zero delay
\* away from the reference pixel
SignAndReferenceWitness_C17 ==
    /\ delay.written /\ Len(trop.data) = 2
    /\ \E k \in 1..2 : trop.data[k][2] # 0

\* C20: when a run is in CORRECTING after PERSISTED or after SKIPPED, the
\* dates of the stored delay result handed to diff.py are the dates of the
\* working list of the run (the list dload_grib_pyaps returned), in order.
StoredMatchesRun_C20 ==
    (/\ stage = "CORRECTING"
     /\ \E k \in 1..Len(trace) : trace[k] \in {"PERSISTED", "SKIPPED"}) =>
        /\ trop.exists
        /\ trop.dates = DateListOf(grib_file_list)

----------------------------------------------------------------------------
(* Properties of the errors of a run *)

\* C11: the fatal-error state is entered only from RESOLVING, ESTIMATING,
\* PERSISTING or CORRECTING (the metadata lookup of main between the return
\* of get_delay_timeseries and the correction is counted with CORRECTING):
\* no error is raised in VERIFYING, FETCHING or NORMALIZING, whatever the
\* working date list and the reference date of the metadata.
FatalOnlyFrom_C11 ==
    stage = "FATAL" =>
        ret.err_stage \in {"RESOLVING", "ESTIMATING", "PERSISTING", "CORRECTING", "RETURNED"}

\* C12: when diff.py returns a status other than zero the run is in the
\* fatal-error state with the error of correct_timeseries, is not DONE and
\* has returned no output file name; when it returns zero the run is DONE and
\* the output file name is returned.
DiffFailureFatal_C12 ==
    /\ (ret.status # Absent /\ ret.status # 0) =>
          /\ stage = "FATAL" /\ ret.err = "Exception" /\ ret.err_stage = "CORRECTING"
          /\ ret.out = "unset"
    /\ ret.status = 0 =>
          /\ stage = "DONE" /\ ret.err = "none"
          /\ ret.out = OutFile(inps)

\* diff.py was given a stored delay result and failed
DiffFailureFatalWitness_C12 ==
    /\ ret.status = 1 /\ stage = "FATAL"
    /\ ret.trop_file = TropFile(inps)

\* C13: when the estimator fails for an epoch of the working list the run is
\* in the fatal-error state, no delay stack (the fields computed before the
\* failure included) has been written, and diff.py has not been run.
EstimatorFailureFatal_C13 ==
    delay.est_failed =>
        /\ stage = "FATAL" /\ ret.err = "EstimatorError" /\ ret.err_stage = "ESTIMATING"
        /\ ~delay.written /\ trop \in {NoFile, OldFile}
        /\ ret.diff_calls = 0 /\ ret.out = "unset"

\* the estimator failed for the second epoch, after the field of the first
\* was computed
EstimatorFailureFatalWitness_C13 ==
    /\ delay.est_failed /\ delay.est_calls = 2
    /\ Len(delay.trop_data) = 1
    /\ stage = "FATAL"

\* C15: a run given only a date list, the hour and the model (no time-series
\* file, no geometry file, no output name), as in the first usage example,
\* never enters the fatal-error state.
DownloadOnlyRun_C15 ==
    (/\ ~inps.timeseries_file /\ ~inps.geom_file /\ ~inps.outfile
     /\ Len(inps.date_list) >= 2) =>
        stage # "FATAL"

----------------------------------------------------------------------------
(* Properties of the log of a run *)

\* the lines check_exist_grib_file prints that name a file: print(rmCmd), one
\* per file removed (the other lines of the function carry counts and a size)
RmLines(r) == [k \in 1..Len(r.deleted) |->
                  [text |-> "rm " \o r.deleted[k], file |-> r.deleted[k], n |-> 0]]

\* print('number of grib files to download: %d' % len(date_list2dload))
CountLine(date_list2dload) ==
    [text |-> "number of grib files to download: %d", file |-> None,
     n |-> Len(date_list2dload)]

\* what dload_grib_pyaps has printed so far about files and dates
DloadLog ==
    IF Len(vlog) = 0 THEN <<>>
    ELSE (RmLines(vlog[1]) \o <<CountLine(File2Dload(vlog[1].input, vlog[1].valid))>>)
         \o (IF Len(vlog) = 2 THEN RmLines(vlog[2]) ELSE <<>>)

\* a log line identifies an artifact (and so its date) when it names its path
Identified(p) == \E k \in 1..Len(DloadLog) : DloadLog[k].file = p

\* C14: every artifact deleted by the first or by the second check, and every
\* date dropped from the working list returned by dload_grib_pyaps, is
\* identified by a log line printed by the time the check that deleted or
\* dropped it has returned.
NoSilentLoss_C14 ==
    /\ \A k \in 1..Len(vlog) : \A p \in Range(vlog[k].deleted) : Identified(p)
    /\ ret.dload_done =>
          \A p \in Range(vlog[1].input) \ Range(grib_file_list) : Identified(p)

====
